---- MODULE Spec2Model ----
(***************************************************************************)
(* Verification model of Viral-Content-CoPilot:                            *)
(*   - withRetries            (services/geminiService.ts)                  *)
(*   - the render queue       (components/RenderQueue.tsx)                 *)
(*   - App's gating, usage accounting, sign-out and auth listener          *)
(*                            (App.tsx, services/userService.ts)           *)
(* Three specifications share the module: SpecRetry, SpecQueue, SpecApp.   *)
(***************************************************************************)
EXTENDS Integers, Sequences, FiniteSets, TLC

VARIABLES
    \* ---- withRetries (one invocation at a time) ----
    wrPc,        \* "loop" | "call" | "wait" | "returned" | "thrown"
    wrMax,       \* the maxRetries argument
    wrAttempt,   \* the loop variable `attempt`
    wrCalls,     \* number of times apiCall() was invoked
    wrDelays,    \* the delays (ms) waited so far, in order
    wrErrs,      \* the errors caught so far, in order
    wrLastError, \* the variable lastError
    \* ---- App state shared by the render queue and the wizard ----
    appView,         \* 'main' | 'profile' | 'pricing'
    userProfile,     \* NoProfile or [tier, usage]
    \* ---- render queue ----
    scenes,          \* scriptResult.scenes: index -> [videoStatus, imageUrl]
    isProcessing,    \* RenderQueue's isProcessing state (mounted instance)
    instance,        \* which mount of RenderQueue is the current one
    runs,            \* the processQueue invocations that are still executing
    lastRequest,     \* the last generateVideos request sent to the vendor
    \* ---- authentication and the user documents ----
    authUser,        \* the user Firebase auth holds ("none" when signed out)
    docs,            \* the 'users' collection: uid -> NoDoc or [tier, usage]
    fetches,         \* listener invocations awaiting getUserProfile(uid)
    currentUser,     \* App state currentUser
    isAuthLoading,   \* App state isAuthLoading
    authView,        \* App state authView: 'login' | 'signup'
    soPc,            \* handleSignOut: "idle" | "resetting"
    suPc,            \* SignUpPage.handleSubmit: "idle" | "reading" | "writing" | "done" | "failed" | "aborted"
    \* ---- the wizard ----
    analysisResult,  \* "none" or the uid whose analysis it is
    products,        \* analysisResult.topSellingProducts (<<>> when analysisResult is null)
    imageCalls,      \* generateImage calls in flight: [index, prompt]
    analysisError,   \* "none" | "limit" | "failed"
    isAnalysisLoading,
    anPc,            \* handleAnalyzeClick: "idle" | "fetching" | "updating"
    anUser,          \* currentUser as captured by the running handleAnalyzeClick
    scriptResult,    \* "none" or the uid whose script it is
    scriptError,     \* "none" | "limit" | "failed"
    isScriptLoading,
    lastScriptInputs,\* "none" or the uid whose inputs they are
    scPc,            \* handleGenerateScript: "idle" | "fetching" | "updating"
    scUser,          \* currentUser as captured by the running handleGenerateScript
    generatedInfluencer,
    generatedProduct,
    analysesDone,    \* trend analyses delivered to the user so far
    scriptsDone      \* scripts delivered to the user so far

retryVars == <<wrPc, wrMax, wrAttempt, wrCalls, wrDelays, wrErrs, wrLastError>>
sharedVars == <<appView, userProfile>>
queueVars == <<scenes, isProcessing, instance, runs, lastRequest>>

authVars == <<authUser, docs, fetches, currentUser, isAuthLoading, authView, soPc, suPc>>
wizardVars == <<analysisResult, products, imageCalls, analysisError, isAnalysisLoading, anPc, anUser,
                scriptResult, scriptError, isScriptLoading, lastScriptInputs, scPc, scUser,
                generatedInfluencer, generatedProduct, analysesDone, scriptsDone>>
appOnlyVars == <<authVars, wizardVars>>

vars == <<retryVars, sharedVars, queueVars, appOnlyVars>>

(***************************************************************************)
(* Bounds                                                                  *)
(***************************************************************************)
MaxMaxRetries == 4     \* largest maxRetries argument explored
NScenes == 3           \* scenes of the generated script
MaxMounts == 2         \* times the RenderQueue component is mounted
MaxOps == 2            \* analyses (and scripts) delivered during one behaviour
NProducts == 2         \* topSellingProducts of an analysis

(***************************************************************************)
(* withRetries                                                             *)
(***************************************************************************)
DefaultMaxRetries == 3
BaseDelayMs == 1500

NoError == [isError |-> FALSE, message |-> <<>>]

\* Values an apiCall can reject with: Error objects whose message is a
\* sequence of words, and one value that is not an Error instance.
Thrown ==
    { [isError |-> TRUE,  message |-> <<"503", "Service", "Unavailable">>],
      [isError |-> TRUE,  message |-> <<"UNAVAILABLE">>],
      [isError |-> TRUE,  message |-> <<"model", "overloaded">>],
      [isError |-> TRUE,  message |-> <<"400", "Bad", "Request">>],
      [isError |-> FALSE, message |-> <<"503">>] }

\* error.message.includes(word)
Includes(message, word) == \E i \in 1..Len(message) : message[i] = word

\* error instanceof Error && (includes('503') || includes('UNAVAILABLE') || includes('overloaded'))
IsRetriable(e) ==
    /\ e.isError
    /\ \/ Includes(e.message, "503")
       \/ Includes(e.message, "UNAVAILABLE")
       \/ Includes(e.message, "overloaded")

\* 1500 * Math.pow(2, attempt - 1)
BackoffDelay(attempt) == BaseDelayMs * 2^(attempt - 1)

\* the condition of the if in the catch block
ShouldRetryAnyError(attempt, maxRetries, e) == attempt < maxRetries
ShouldRetry(attempt, maxRetries, e) == attempt < maxRetries /\ IsRetriable(e)

\* for (...; attempt <= maxRetries; ...) : the loop test
WrLoopTest ==
    /\ wrPc = "loop"
    /\ wrPc' = IF wrAttempt <= wrMax THEN "call" ELSE "thrown"
    /\ UNCHANGED <<wrMax, wrAttempt, wrCalls, wrDelays, wrErrs, wrLastError>>

\* return await apiCall()  -- the call resolves
WrCallOk ==
    /\ wrPc = "call"
    /\ wrPc' = "returned"
    /\ wrCalls' = wrCalls + 1
    /\ UNCHANGED <<wrMax, wrAttempt, wrDelays, wrErrs, wrLastError>>

\* return await apiCall()  -- the call rejects with e; the catch block
WrCallFail ==
    /\ wrPc = "call"
    /\ \E e \in Thrown :
        /\ wrCalls' = wrCalls + 1
        /\ wrLastError' = e
        /\ wrErrs' = Append(wrErrs, e)
        /\ IF ShouldRetry(wrAttempt, wrMax, e)
             THEN /\ wrDelays' = Append(wrDelays, BackoffDelay(wrAttempt))
                  /\ wrPc' = "wait"
             ELSE /\ wrDelays' = wrDelays
                  /\ wrPc' = "thrown"
    /\ UNCHANGED <<wrMax, wrAttempt>>

\* the setTimeout of the backoff fires; attempt++
WrWaitDone ==
    /\ wrPc = "wait"
    /\ wrAttempt' = wrAttempt + 1
    /\ wrPc' = "loop"
    /\ UNCHANGED <<wrMax, wrCalls, wrDelays, wrErrs, wrLastError>>

\* a new invocation of withRetries(apiCall, m)
WrInvoke ==
    /\ wrPc \in {"returned", "thrown"}
    /\ \E m \in 0..MaxMaxRetries :
        /\ wrMax' = m
        /\ wrAttempt' = 1
        /\ wrCalls' = 0
        /\ wrDelays' = <<>>
        /\ wrErrs' = <<>>
        /\ wrLastError' = NoError
        /\ wrPc' = "loop"

InitRetryVars ==
    /\ wrMax = DefaultMaxRetries
    /\ wrAttempt = 1
    /\ wrCalls = 0
    /\ wrDelays = <<>>
    /\ wrErrs = <<>>
    /\ wrLastError = NoError
    /\ wrPc = "loop"

(***************************************************************************)
(* The render queue (RenderQueue.tsx) inside App                           *)
(***************************************************************************)
FreeVideoLimit == 2     \* '2 Video Renders (720p)' of the Free plan

SceneIdx == 1..NScenes
RunIdx == 1..MaxMounts
Tiers == {"free", "pro", "business"}
NoProfile == [tier |-> "none", usage |-> [analyses |-> 0, scripts |-> 0, videos |-> 0]]
NoRequest == [tier |-> "none", prompt |-> {}]
\* items: the items the for-of loop has not finished yet, the current one first
\* snap: the scenes that were 'queued' when the run was started
IdleRun == [pc |-> "idle", items |-> <<>>, attempt |-> 0, fails |-> <<>>, snap |-> {}]

\* the value of a parameter the caller did not pass
Undefined == "undefined"

\* startVideoGeneration: the requirements appended to basePrompt
FinalPrompt(tier) ==
    {"resolution", "frameRate"} \cup
        (IF tier = "free" THEN {"watermark"} ELSE {"no-watermarks"})

\* the call startVideoGeneration(prompt, sceneImage) of processQueue binds
\* the parameters tier, resolution and frameRate to undefined
ProcessQueueVideoPrompt == FinalPrompt(Undefined)

\* RenderQueue is rendered only inside the 'main' view of App
Mounted == appView = "main"

\* script.scenes.map(...).filter(videoStatus === 'queued'), as a sequence
RECURSIVE QueuedFrom(_)
QueuedFrom(i) ==
    IF i > NScenes THEN <<>>
    ELSE IF scenes[i].videoStatus = "queued"
         THEN <<[originalIndex |-> i, imageUrl |-> scenes[i].imageUrl]>> \o QueuedFrom(i + 1)
         ELSE QueuedFrom(i + 1)
ItemsToProcess == QueuedFrom(1)

\* queuedItems of the component: 'queued' or 'processing' scenes
QueuedItems == {i \in SceneIdx : scenes[i].videoStatus \in {"queued", "processing"}}

\* updateScene(sceneIndex, {videoStatus: st})
UpdateScene(i, st) == [scenes EXCEPT ![i].videoStatus = st]

\* setIsProcessing / setProcessingError of a run reach the state of the
\* component instance that started it, if it is still the mounted one
Attached(r) == Mounted /\ r = instance

\* what the vendor answered: a transient overload, or anything else
ErrorClass(e) ==
    IF e.isError /\ (Includes(e.message, "503") \/ Includes(e.message, "UNAVAILABLE")
                       \/ Includes(e.message, "overloaded"))
      THEN "transient" ELSE "other"

\* withRetries with the default maxRetries, as startVideoGeneration and
\* checkVideoStatus call it: after a failed attempt the call is made again
\* iff the catch block waits and the loop test admits the next attempt
RetriesAgain(attempt, e) ==
    ShouldRetry(attempt, DefaultMaxRetries, e) /\ attempt + 1 <= DefaultMaxRetries

\* the for-of loop is at its head with `items` left: it ends when there is
\* none, or breaks on an item without image (lines 62-74)
LoopEnds(items) == items = <<>> \/ ~Head(items).imageUrl

\* line 174 as run r reaches it: setIsProcessing(false)
SetIsProcessingFalse(r) == isProcessing' = IF Attached(r) THEN FALSE ELSE isProcessing

\* the loop head and the body of the next iteration up to the await of
\* startVideoGeneration (lines 62-118), or the end of the loop
LoopHead(r, items, snap) ==
    IF items = <<>>
      THEN /\ runs' = [runs EXCEPT ![r] = IdleRun]
           /\ UNCHANGED scenes
      ELSE IF ~Head(items).imageUrl
             THEN /\ scenes' = UpdateScene(Head(items).originalIndex, "error")
                  /\ runs' = [runs EXCEPT ![r] = IdleRun]
             ELSE /\ scenes' = UpdateScene(Head(items).originalIndex, "processing")
                  /\ runs' = [runs EXCEPT ![r] = [pc |-> "submit", items |-> items,
                                attempt |-> 1, fails |-> <<>>, snap |-> snap]]

\* onClick={processQueue} disabled={isProcessing}: lines 54-118, up to the
\* await of startVideoGeneration for the first item
ProcessQueue(r) ==
    /\ Mounted
    /\ QueuedItems # {}
    /\ ~isProcessing
    /\ r = instance
    /\ isProcessing' = ~LoopEnds(ItemsToProcess)
    /\ LoopHead(r, ItemsToProcess, {i \in SceneIdx : scenes[i].videoStatus = "queued"})
    /\ UNCHANGED <<instance, lastRequest, sharedVars>>

\* a catch block that marks the scene and goes on with the next item
FailSceneContinue(r, i) ==
    LET rest == Tail(runs[r].items)
    IN IF rest = <<>>
         THEN /\ scenes' = UpdateScene(i, "error")
              /\ runs' = [runs EXCEPT ![r] = IdleRun]
              /\ SetIsProcessingFalse(r)
         ELSE /\ scenes' = [scenes EXCEPT ![i].videoStatus = "error",
                                ![Head(rest).originalIndex].videoStatus = "processing"]
              /\ runs' = [runs EXCEPT ![r].pc = "submit", ![r].items = rest,
                                      ![r].attempt = 1, ![r].fails = <<>>]
              /\ UNCHANGED isProcessing
\* the catch block of the loop body (lines 164-169), the break, and line 174
FailScene(r, i) ==
    /\ scenes' = UpdateScene(i, "error")
    /\ runs' = [runs EXCEPT ![r] = IdleRun]
    /\ SetIsProcessingFalse(r)

\* startVideoGeneration: one generateVideos request inside withRetries
RunSubmit(r) ==
    /\ runs[r].pc = "submit"
    /\ LET i == Head(runs[r].items).originalIndex
       IN /\ lastRequest' = [tier |-> userProfile.tier, prompt |-> ProcessQueueVideoPrompt]
          /\ \/ /\ runs' = [runs EXCEPT ![r].pc = "polling"]
                /\ UNCHANGED <<scenes, isProcessing>>
             \/ \E e \in Thrown :
                  IF RetriesAgain(runs[r].attempt, e)
                    THEN /\ runs' = [runs EXCEPT ![r].attempt = @ + 1,
                                        ![r].fails = Append(@, ErrorClass(e))]
                         /\ UNCHANGED <<scenes, isProcessing>>
                    ELSE FailScene(r, i)
    /\ UNCHANGED <<instance, sharedVars>>

\* the setInterval callback fires: lines 123-129 up to the await of
\* checkVideoStatus
RunTick(r) ==
    /\ runs[r].pc = "polling"
    /\ runs' = [runs EXCEPT ![r].pc = "check", ![r].attempt = 1, ![r].fails = <<>>]
    /\ UNCHANGED <<scenes, isProcessing, instance, lastRequest, sharedVars>>

\* checkVideoStatus: one getVideosOperation request inside withRetries, and
\* lines 131-157 on its result
RunCheck(r) ==
    /\ runs[r].pc = "check"
    /\ LET i == Head(runs[r].items).originalIndex
       IN \/ \* not done yet: wait for the next tick
             /\ runs' = [runs EXCEPT ![r].pc = "polling"]
             /\ UNCHANGED <<scenes, isProcessing>>
          \/ \* done with a download link: fetch the video
             /\ runs' = [runs EXCEPT ![r].pc = "download"]
             /\ UNCHANGED <<scenes, isProcessing>>
          \/ \* done with updatedOp.error, or without a download link
             FailScene(r, i)
          \/ \E e \in Thrown :
               IF RetriesAgain(runs[r].attempt, e)
                 THEN /\ runs' = [runs EXCEPT ![r].attempt = @ + 1,
                                     ![r].fails = Append(@, ErrorClass(e))]
                      /\ UNCHANGED <<scenes, isProcessing>>
                 ELSE FailScene(r, i)
    /\ UNCHANGED <<instance, lastRequest, sharedVars>>

\* lines 141-153: the video download, then 'done' and resolve()
RunDownload(r) ==
    /\ runs[r].pc = "download"
    /\ LET i == Head(runs[r].items).originalIndex
       IN \/ /\ scenes' = UpdateScene(i, "done")
             /\ runs' = [runs EXCEPT ![r].pc = "gap"]
             /\ UNCHANGED isProcessing
          \/ \* no API key, or the response is not ok
             FailScene(r, i)
    /\ UNCHANGED <<instance, lastRequest, sharedVars>>

\* line 171: the 2 s pause is over; the next iteration runs up to its await,
\* or the loop is over and line 174 runs
RunGap(r) ==
    /\ runs[r].pc = "gap"
    /\ LoopHead(r, Tail(runs[r].items), runs[r].snap)
    /\ IF LoopEnds(Tail(runs[r].items))
         THEN SetIsProcessingFalse(r)
         ELSE UNCHANGED isProcessing
    /\ UNCHANGED <<instance, lastRequest, sharedVars>>

\* ScriptDisplay.handleGenerateImage: 'Generate Scene Image', enabled for a
\* scene without image that is neither queued nor processing
GenerateSceneImage(i) ==
    /\ Mounted
    /\ ~scenes[i].imageUrl
    /\ scenes[i].videoStatus \notin {"processing", "queued"}
    /\ scenes' = [scenes EXCEPT ![i].imageUrl = TRUE]
    /\ UNCHANGED <<isProcessing, instance, runs, lastRequest, sharedVars>>

\* App.handleAddToRenderQueue, reached from 'Add to Render Queue' (idle
\* scene with an image) or 'Retry' (scene in error)
HandleAddToRenderQueue(i) ==
    /\ Mounted
    /\ \/ scenes[i].videoStatus = "idle" /\ scenes[i].imageUrl
       \/ scenes[i].videoStatus = "error"
    /\ scenes' = IF scenes[i].videoStatus \in {"queued", "processing", "done"}
                   THEN scenes
                   ELSE UpdateScene(i, "queued")
    /\ UNCHANGED <<isProcessing, instance, runs, lastRequest, sharedVars>>

\* Header: onProfileClick / onUpgradeClick; the main view, and RenderQueue
\* with its state, is unmounted
NavigateAway ==
    /\ appView = "main"
    /\ instance < MaxMounts
    /\ \E v \in {"profile", "pricing"} : appView' = v
    /\ isProcessing' = FALSE
    /\ UNCHANGED <<userProfile, scenes, instance, runs, lastRequest>>

\* onBackToApp: the main view is rendered again; RenderQueue is mounted
\* with useState(false) / useState(null)
BackToApp ==
    /\ appView # "main"
    /\ appView' = "main"
    /\ instance' = instance + 1
    /\ isProcessing' = FALSE
    /\ UNCHANGED <<userProfile, scenes, runs, lastRequest>>

(***************************************************************************)
(* App: authentication listener, feature gating, usage accounting,         *)
(* sign-out (App.tsx, services/userService.ts, services/authService.ts)    *)
(***************************************************************************)
FreeUsageLimit == 5
ProUsageLimit == 100

Users == {"u1", "g", "n"}   \* u1 has a profile document; g is a new Google account, n a new email account
NoDoc == [tier |-> "none", usage |-> [analyses |-> 0, scripts |-> 0, videos |-> 0]]

\* usage of a document whose owner is one operation away from the limit
NearLimit(t) == IF t = "free" THEN FreeUsageLimit - 1 ELSE ProUsageLimit - 1
DocOf(t, n) == [tier |-> t, usage |-> [analyses |-> n, scripts |-> n, videos |-> 0]]

\* getUserProfile: null when the document does not exist
GetUserProfile(uid) ==
    IF docs[uid] = NoDoc THEN NoProfile
    ELSE [tier |-> docs[uid].tier, usage |-> docs[uid].usage]

\* userProfile.usage.X >= usageLimit, usageLimit = 5 | 100 | Infinity
UsageLimitExceeded(tier, used) ==
    IF tier = "free" THEN used > FreeUsageLimit
    ELSE IF tier = "pro" THEN used > ProUsageLimit
    ELSE FALSE
UsageLimitReached(tier, used) ==
    IF tier = "free" THEN used >= FreeUsageLimit
    ELSE IF tier = "pro" THEN used >= ProUsageLimit
    ELSE FALSE

\* fewer than MaxOps vendor operations have succeeded
OpsLeft == analysesDone + scriptsDone < 2 * NearLimit(docs["u1"].tier) + MaxOps

\* renderContent: the auth pages are shown unless currentUser and userProfile
ShowsAuthPage == ~isAuthLoading /\ (currentUser = "none" \/ userProfile = NoProfile)
ShowsApp == ~isAuthLoading /\ currentUser # "none" /\ userProfile # NoProfile
ShowsMain == ShowsApp /\ appView = "main"

\* the state of the wizard after construction: lines 28-45
InitWizardVars ==
    /\ analysisResult = "none"
    /\ products = <<>>
    /\ imageCalls = {}
    /\ analysisError = "none"
    /\ isAnalysisLoading = FALSE
    /\ anPc = "idle"
    /\ anUser = "none"
    /\ scriptResult = "none"
    /\ scriptError = "none"
    /\ isScriptLoading = FALSE
    /\ lastScriptInputs = "none"
    /\ scPc = "idle"
    /\ scUser = "none"
    /\ generatedInfluencer = "none"
    /\ generatedProduct = "none"

\* the first call of the onAuthStateChanged callback, with no persisted user
AuthInitial ==
    /\ isAuthLoading
    /\ authUser = "none"
    /\ fetches = {}
    /\ currentUser' = "none"
    /\ userProfile' = NoProfile
    /\ isAuthLoading' = FALSE
    /\ UNCHANGED <<authUser, docs, fetches, authView, soPc, suPc, appView, wizardVars,
                   retryVars, queueVars>>

\* onSwitchToSignUp / onSwitchToLogin
SwitchAuthView ==
    /\ ShowsAuthPage
    /\ authView' = IF authView = "login" THEN "signup" ELSE "login"
    /\ UNCHANGED <<authUser, docs, fetches, currentUser, isAuthLoading, soPc, suPc, sharedVars,
                   wizardVars, retryVars, queueVars>>

\* a sign-in succeeds: auth holds u and the listener runs up to its await
\* of getUserProfile(user.uid)
SignedIn(u) ==
    /\ authUser # u
    /\ authUser' = u
    /\ currentUser' = u
    /\ fetches' = fetches \cup {u}
    /\ UNCHANGED <<docs, isAuthLoading, authView, soPc, suPc, sharedVars, wizardVars,
                   retryVars, queueVars>>

\* LoginPage.handleSubmit: signInWithEmail of the existing account
SignInWithEmail ==
    /\ ShowsAuthPage
    /\ authView = "login"
    /\ SignedIn("u1")

\* LoginPage.handleGoogleSignIn / SignUpPage.handleGoogleSignUp: signInWithRedirect
\* of an account that has no profile document. The redirect reloads the page:
\* App is constructed again and its listener runs with the Google user.
SignInWithGoogle ==
    /\ ShowsAuthPage
    /\ authUser' = "g"
    /\ isAuthLoading' = TRUE
    /\ currentUser' = "g"
    /\ fetches' = {"g"}
    /\ userProfile' = NoProfile
    /\ appView' = "main"
    /\ authView' = "login"
    /\ soPc' = "idle"
    /\ suPc' = IF suPc \in {"reading", "writing"} THEN "aborted" ELSE suPc
    /\ analysisResult' = "none"
    /\ products' = <<>>
    /\ imageCalls' = {}
    /\ analysisError' = "none"
    /\ isAnalysisLoading' = FALSE
    /\ anPc' = "idle"
    /\ anUser' = "none"
    /\ scriptResult' = "none"
    /\ scriptError' = "none"
    /\ isScriptLoading' = FALSE
    /\ lastScriptInputs' = "none"
    /\ scPc' = "idle"
    /\ scUser' = "none"
    /\ generatedInfluencer' = "none"
    /\ generatedProduct' = "none"
    /\ UNCHANGED <<docs, analysesDone, scriptsDone, retryVars, queueVars>>

\* SignUpPage.handleSubmit with valid fields, up to the end of
\* `await signUpWithEmail(email, password)`: auth creates and holds the new
\* user, and the listener runs up to its await of getUserProfile(user.uid)
SignUpWithEmail ==
    /\ ShowsAuthPage
    /\ authView = "signup"
    /\ suPc = "idle"
    /\ suPc' = "reading"
    /\ authUser' = "n"
    /\ currentUser' = "n"
    /\ fetches' = fetches \cup {"n"}
    /\ UNCHANGED <<docs, isAuthLoading, authView, soPc, sharedVars, wizardVars,
                   retryVars, queueVars>>

\* createUserProfileDocument: `await getDoc(userDocRef)` settles
SignUpDocRead ==
    /\ suPc = "reading"
    /\ \/ suPc' = IF docs["n"] = NoDoc THEN "writing" ELSE "done"
       \/ suPc' = "failed"
    /\ UNCHANGED <<authUser, docs, fetches, currentUser, isAuthLoading, authView, soPc,
                   sharedVars, wizardVars, retryVars, queueVars>>

\* createUserProfileDocument: `await setDoc(userDocRef, newUserProfile)`
\* settles; the new profile is 'free' with all usage at 0
SignUpDocWritten ==
    /\ suPc = "writing"
    /\ \/ /\ docs' = [docs EXCEPT !["n"] = DocOf("free", 0)]
          /\ suPc' = "done"
       \/ /\ suPc' = "failed"
          /\ UNCHANGED docs
    /\ UNCHANGED <<authUser, fetches, currentUser, isAuthLoading, authView, soPc,
                   sharedVars, wizardVars, retryVars, queueVars>>

\* the listener's getUserProfile(user.uid) settles: lines 53-63
ListenerProfileFetched(u) ==
    /\ u \in fetches
    /\ fetches' = fetches \ {u}
    /\ isAuthLoading' = FALSE
    /\ \/ /\ userProfile' = GetUserProfile(u)
          /\ UNCHANGED <<authUser, currentUser>>
       \/ \* the read throws: signOutUser(), and the listener runs with null
          /\ authUser' = "none"
          /\ IF authUser # "none"
               THEN currentUser' = "none" /\ userProfile' = NoProfile
               ELSE UNCHANGED <<currentUser, userProfile>>
    /\ UNCHANGED <<docs, authView, soPc, suPc, appView, wizardVars, retryVars, queueVars>>

\* Header.onProfileClick
ProfileClick ==
    /\ ShowsMain
    /\ appView' = "profile"
    /\ UNCHANGED <<userProfile, authVars, wizardVars, retryVars, queueVars>>

\* Header.onUpgradeClick, ProfilePage.onManageSubscription
UpgradeClick ==
    /\ ShowsApp
    /\ appView \in {"main", "profile"}
    /\ appView' = "pricing"
    /\ UNCHANGED <<userProfile, authVars, wizardVars, retryVars, queueVars>>

\* onBackToApp of ProfilePage and PricingPage
BackToMain ==
    /\ ShowsApp
    /\ appView \in {"profile", "pricing"}
    /\ appView' = "main"
    /\ UNCHANGED <<userProfile, authVars, wizardVars, retryVars, queueVars>>

\* handleSignOut up to the end of `await signOutUser()`: auth drops the user
\* and the listener runs with null
HandleSignOutClick ==
    /\ ShowsApp
    /\ appView = "profile"
    /\ soPc = "idle"
    /\ soPc' = "resetting"
    /\ authUser' = "none"
    /\ currentUser' = "none"
    /\ userProfile' = NoProfile
    /\ UNCHANGED <<docs, fetches, isAuthLoading, authView, suPc, appView, wizardVars,
                   retryVars, queueVars>>

\* handleSignOut after the await: lines 267-274
HandleSignOutReset ==
    /\ soPc = "resetting"
    /\ soPc' = "idle"
    /\ appView' = "main"
    /\ authView' = "login"
    /\ userProfile' = NoProfile
    /\ analysisResult' = "none"
    /\ products' = <<>>
    /\ generatedInfluencer' = "none"
    /\ generatedProduct' = "none"
    /\ scriptResult' = "none"
    /\ UNCHANGED <<authUser, docs, fetches, currentUser, isAuthLoading, suPc,
                   imageCalls, analysisError, isAnalysisLoading, anPc, anUser,
                   scriptError, isScriptLoading, lastScriptInputs, scPc, scUser,
                   analysesDone, scriptsDone, retryVars, queueVars>>

\* handleUsageUpdate(feature) for user uid: updateUserUsage, then
\* setUserProfile(prev => prev ? {...prev, usage: newUsage} : null)
HandleUsageUpdate(uid, feature) ==
    \/ \* updateDoc rejects (also when there is no document): caught and logged
       UNCHANGED <<docs, userProfile>>
    \/ \* updateDoc resolves, the read of the updated profile rejects
       /\ docs[uid] # NoDoc
       /\ docs' = [docs EXCEPT ![uid].usage[feature] = @ + 1]
       /\ UNCHANGED userProfile
    \/ \* both resolve
       /\ docs[uid] # NoDoc
       /\ docs' = [docs EXCEPT ![uid].usage[feature] = @ + 1]
       /\ userProfile' = IF userProfile = NoProfile THEN NoProfile
                         ELSE [userProfile EXCEPT !.usage = docs'[uid].usage]

ProductIdx == 1..NProducts

\* result.topSellingProducts.map(p => ({...p, isGeneratingImage: true,
\* imageError: undefined})) of the analysis numbered n; prompt stands for the
\* product's imagePrompt, imageUrl / imageError name the prompt of the
\* generation they came from (0: none)
ProductsWithLoadingState(n) ==
    [i \in ProductIdx |-> [prompt |-> n, imageUrl |-> 0, imageError |-> 0,
                           isGeneratingImage |-> TRUE]]

\* handleAnalyzeClick up to the await of fetchViralAnalysis: lines 79-94
HandleAnalyzeClick ==
    /\ ShowsMain
    /\ ~isAnalysisLoading
    /\ IF UsageLimitReached(userProfile.tier, userProfile.usage.analyses)
         THEN /\ analysisError' = "limit"
              /\ appView' = "pricing"
              /\ UNCHANGED <<isAnalysisLoading, analysisResult, products, imageCalls, anPc, anUser>>
         ELSE /\ OpsLeft
              /\ isAnalysisLoading' = TRUE
              /\ analysisError' = "none"
              /\ analysisResult' = "none"
              /\ products' = <<>>
              /\ anPc' = "fetching"
              /\ anUser' = currentUser
              /\ UNCHANGED <<appView, imageCalls>>
    /\ UNCHANGED <<userProfile, authVars, scriptResult, scriptError, isScriptLoading,
                   lastScriptInputs, scPc, scUser, generatedInfluencer, generatedProduct,
                   analysesDone, scriptsDone, retryVars, queueVars>>

\* fetchViralAnalysis settles: lines 94-97, or the catch and finally
AnalyzeFetched ==
    /\ anPc = "fetching"
    /\ \/ /\ analysisResult' = anUser
          /\ products' = ProductsWithLoadingState(analysesDone + 1)
          /\ analysesDone' = analysesDone + 1
          /\ anPc' = "updating"
          /\ UNCHANGED <<analysisError, isAnalysisLoading, anUser, imageCalls>>
       \/ /\ analysisError' = "failed"
          /\ isAnalysisLoading' = FALSE
          /\ anPc' = "idle"
          /\ anUser' = "none"
          /\ UNCHANGED <<analysisResult, products, imageCalls, analysesDone>>
    /\ UNCHANGED <<sharedVars, authVars, scriptResult, scriptError, isScriptLoading,
                   lastScriptInputs, scPc, scUser, generatedInfluencer, generatedProduct,
                   scriptsDone, retryVars, queueVars>>

\* await handleUsageUpdate('analyses') settles, then finally: lines 99-125
AnalyzeUsageUpdated ==
    /\ anPc = "updating"
    /\ HandleUsageUpdate(anUser, "analyses")
    /\ isAnalysisLoading' = FALSE
    /\ anPc' = "idle"
    /\ anUser' = "none"
    /\ imageCalls' = imageCalls \cup {[index |-> i, prompt |-> analysesDone] : i \in ProductIdx}
    /\ UNCHANGED <<appView, authUser, fetches, currentUser, isAuthLoading, authView, soPc, suPc,
                   analysisResult, products, analysisError,
                   scriptResult, scriptError, isScriptLoading, lastScriptInputs, scPc, scUser,
                   generatedInfluencer, generatedProduct, analysesDone, scriptsDone,
                   retryVars, queueVars>>

\* a generateImage(product.imagePrompt) call of handleAnalyzeClick's forEach
\* or of handleRetryProductImage settles: the functional update writes
\* products[index] of whatever result is stored then (lines 104-120, 145-158)
ImageReturned(c) ==
    /\ c \in imageCalls
    /\ imageCalls' = imageCalls \ {c}
    /\ \/ products' = IF products = <<>> THEN products
                       ELSE [products EXCEPT ![c.index] =
                               [@ EXCEPT !.imageUrl = c.prompt, !.isGeneratingImage = FALSE,
                                         !.imageError = 0]]
       \/ products' = IF products = <<>> THEN products
                       ELSE [products EXCEPT ![c.index] =
                               [@ EXCEPT !.isGeneratingImage = FALSE,
                                         !.imageError = c.prompt]]
    /\ UNCHANGED <<sharedVars, authVars, analysisResult, analysisError, isAnalysisLoading,
                   anPc, anUser, scriptResult, scriptError, isScriptLoading,
                   lastScriptInputs, scPc, scUser, generatedInfluencer, generatedProduct,
                   analysesDone, scriptsDone, retryVars, queueVars>>

\* handleRetryProductImage(productIndex), from the 'Retry' button that
\* AnalysisDisplay shows for a product with an imageError and no image
\* (lines 128-144, up to the await of generateImage)
HandleRetryProductImage(i) ==
    /\ ShowsMain
    /\ analysisResult # "none"
    /\ ~isAnalysisLoading
    /\ products[i].imageUrl = 0
    /\ ~products[i].isGeneratingImage
    /\ products[i].imageError # 0
    /\ products' = [products EXCEPT ![i] = [@ EXCEPT !.isGeneratingImage = TRUE,
                                                       !.imageError = 0]]
    /\ imageCalls' = imageCalls \cup {[index |-> i, prompt |-> products[i].prompt]}
    /\ UNCHANGED <<sharedVars, authVars, analysisResult, analysisError, isAnalysisLoading,
                   anPc, anUser, scriptResult, scriptError, isScriptLoading,
                   lastScriptInputs, scPc, scUser, generatedInfluencer, generatedProduct,
                   analysesDone, scriptsDone, retryVars, queueVars>>

\* handleGenerateScript, called by ScriptGenerator.handleSubmit with a
\* product image, an influencer image and a description: lines 178-197
HandleGenerateScript ==
    /\ ShowsMain
    /\ ~isScriptLoading
    /\ IF UsageLimitReached(userProfile.tier, userProfile.usage.scripts)
         THEN /\ scriptError' = "limit"
              /\ appView' = "pricing"
              /\ UNCHANGED <<isScriptLoading, scriptResult, lastScriptInputs, scPc, scUser>>
         ELSE /\ OpsLeft
              /\ isScriptLoading' = TRUE
              /\ scriptError' = "none"
              /\ scriptResult' = "none"
              /\ lastScriptInputs' = currentUser
              /\ scPc' = "fetching"
              /\ scUser' = currentUser
              /\ UNCHANGED appView
    /\ UNCHANGED <<userProfile, authVars, analysisResult, products, imageCalls, analysisError, isAnalysisLoading,
                   anPc, anUser, generatedInfluencer, generatedProduct,
                   analysesDone, scriptsDone, retryVars, queueVars>>

\* generateViralScript settles: line 198, or the catch and finally
ScriptFetched ==
    /\ scPc = "fetching"
    /\ \/ /\ scriptResult' = scUser
          /\ scriptsDone' = scriptsDone + 1
          /\ scPc' = "updating"
          /\ UNCHANGED <<scriptError, isScriptLoading, lastScriptInputs, scUser>>
       \/ /\ scriptError' = "failed"
          /\ lastScriptInputs' = "none"
          /\ isScriptLoading' = FALSE
          /\ scPc' = "idle"
          /\ scUser' = "none"
          /\ UNCHANGED <<scriptResult, scriptsDone>>
    /\ UNCHANGED <<sharedVars, authVars, analysisResult, products, imageCalls, analysisError, isAnalysisLoading,
                   anPc, anUser, generatedInfluencer, generatedProduct,
                   analysesDone, retryVars, queueVars>>

\* await handleUsageUpdate('scripts') settles, then finally: lines 199-205
ScriptUsageUpdated ==
    /\ scPc = "updating"
    /\ HandleUsageUpdate(scUser, "scripts")
    /\ isScriptLoading' = FALSE
    /\ scPc' = "idle"
    /\ scUser' = "none"
    /\ UNCHANGED <<appView, authUser, fetches, currentUser, isAuthLoading, authView, soPc, suPc,
                   analysisResult, products, imageCalls, analysisError, isAnalysisLoading, anPc, anUser,
                   scriptResult, scriptError, lastScriptInputs,
                   generatedInfluencer, generatedProduct, analysesDone, scriptsDone,
                   retryVars, queueVars>>

\* handleInfluencerGenerated
HandleInfluencerGenerated ==
    /\ ShowsMain
    /\ generatedInfluencer' = currentUser
    /\ UNCHANGED <<sharedVars, authVars, analysisResult, products, imageCalls, analysisError, isAnalysisLoading,
                   anPc, anUser, scriptResult, scriptError, isScriptLoading,
                   lastScriptInputs, scPc, scUser, generatedProduct,
                   analysesDone, scriptsDone, retryVars, queueVars>>

\* handleProductGenerated
HandleProductGenerated ==
    /\ ShowsMain
    /\ generatedProduct' = currentUser
    /\ UNCHANGED <<sharedVars, authVars, analysisResult, products, imageCalls, analysisError, isAnalysisLoading,
                   anPc, anUser, scriptResult, scriptError, isScriptLoading,
                   lastScriptInputs, scPc, scUser, generatedInfluencer,
                   analysesDone, scriptsDone, retryVars, queueVars>>

\* App after construction (lines 21-48), over a 'users' collection that
\* holds the document of u1
InitApp ==
    /\ InitWizardVars
    /\ \E t \in Tiers : docs = [u \in Users |-> IF u = "u1" THEN DocOf(t, NearLimit(t)) ELSE NoDoc]
    /\ analysesDone = docs["u1"].usage.analyses
    /\ scriptsDone = docs["u1"].usage.scripts
    /\ authUser = "none"
    /\ fetches = {}
    /\ currentUser = "none"
    /\ isAuthLoading = TRUE
    /\ authView = "login"
    /\ soPc = "idle"
    /\ suPc = "idle"
    /\ appView = "main"
    /\ userProfile = NoProfile

\* u1 is signed in and has generated the script the render queue works on
InitSignedIn ==
    /\ authUser = "u1"
    /\ docs = [u \in Users |-> IF u = "u1" THEN [tier |-> userProfile.tier, usage |-> userProfile.usage]
                                ELSE NoDoc]
    /\ fetches = {}
    /\ currentUser = "u1"
    /\ isAuthLoading = FALSE
    /\ authView = "login"
    /\ soPc = "idle"
    /\ suPc = "idle"
    /\ analysisResult = "none"
    /\ products = <<>>
    /\ imageCalls = {}
    /\ analysisError = "none"
    /\ isAnalysisLoading = FALSE
    /\ anPc = "idle"
    /\ anUser = "none"
    /\ scriptResult = "u1"
    /\ scriptError = "none"
    /\ isScriptLoading = FALSE
    /\ lastScriptInputs = "u1"
    /\ scPc = "idle"
    /\ scUser = "none"
    /\ generatedInfluencer = "none"
    /\ generatedProduct = "none"
    /\ analysesDone = 0
    /\ scriptsDone = 1

InitQueueVars ==
    /\ appView = "main"
    /\ userProfile \in {[tier |-> t, usage |-> [analyses |-> 0, scripts |-> 1, videos |-> 0]] : t \in Tiers}
    /\ scenes = [i \in SceneIdx |-> [videoStatus |-> "idle", imageUrl |-> FALSE]]
    /\ isProcessing = FALSE
    /\ instance = 1
    /\ runs = [r \in RunIdx |-> IdleRun]
    /\ lastRequest = NoRequest

InitQueue == InitRetryVars /\ InitQueueVars /\ InitSignedIn

NextQueue ==
    \/ \E r \in RunIdx : ProcessQueue(r) /\ UNCHANGED <<retryVars, appOnlyVars>>
    \/ \E r \in RunIdx : RunSubmit(r) /\ UNCHANGED <<retryVars, appOnlyVars>>
    \/ \E r \in RunIdx : RunTick(r) /\ UNCHANGED <<retryVars, appOnlyVars>>
    \/ \E r \in RunIdx : RunCheck(r) /\ UNCHANGED <<retryVars, appOnlyVars>>
    \/ \E r \in RunIdx : RunDownload(r) /\ UNCHANGED <<retryVars, appOnlyVars>>
    \/ \E r \in RunIdx : RunGap(r) /\ UNCHANGED <<retryVars, appOnlyVars>>
    \/ \E i \in SceneIdx : GenerateSceneImage(i) /\ UNCHANGED <<retryVars, appOnlyVars>>
    \/ \E i \in SceneIdx : HandleAddToRenderQueue(i) /\ UNCHANGED <<retryVars, appOnlyVars>>
    \/ NavigateAway /\ UNCHANGED <<retryVars, appOnlyVars>>
    \/ BackToApp /\ UNCHANGED <<retryVars, appOnlyVars>>

SpecQueue == InitQueue /\ [][NextQueue]_vars

\* The render queue of one mounted RenderQueue: the user stays on the main view
NextQueueRun ==
    \/ \E r \in RunIdx : ProcessQueue(r) /\ UNCHANGED <<retryVars, appOnlyVars>>
    \/ \E r \in RunIdx : RunSubmit(r) /\ UNCHANGED <<retryVars, appOnlyVars>>
    \/ \E r \in RunIdx : RunTick(r) /\ UNCHANGED <<retryVars, appOnlyVars>>
    \/ \E r \in RunIdx : RunCheck(r) /\ UNCHANGED <<retryVars, appOnlyVars>>
    \/ \E r \in RunIdx : RunDownload(r) /\ UNCHANGED <<retryVars, appOnlyVars>>
    \/ \E r \in RunIdx : RunGap(r) /\ UNCHANGED <<retryVars, appOnlyVars>>
    \/ \E i \in SceneIdx : GenerateSceneImage(i) /\ UNCHANGED <<retryVars, appOnlyVars>>
    \/ \E i \in SceneIdx : HandleAddToRenderQueue(i) /\ UNCHANGED <<retryVars, appOnlyVars>>

SpecQueueRun == InitQueue /\ [][NextQueueRun]_vars

Processing == {i \in SceneIdx : scenes[i].videoStatus = "processing"}
Done == {i \in SceneIdx : scenes[i].videoStatus = "done"}
Ascending(items) ==
    \A j, k \in 1..Len(items) : j < k => items[j].originalIndex < items[k].originalIndex
InRequest(r) == runs[r].pc \in {"submit", "check"}

\* C1: the queue is strictly sequential: the items of a run are in ascending
\* scene index and at no time do two scenes have videoStatus 'processing'.
C1_StrictlySequential ==
    /\ \A r \in RunIdx : Ascending(runs[r].items)
    /\ Cardinality(Processing) <= 1

C5_FreeTierVideoLimit ==
    userProfile.tier = "free" => Cardinality(Done) <= FreeVideoLimit

\* C6: every generateVideos request of a free-tier user carries the watermark
\* requirement and not the no-watermark one; every request of a pro or
\* business user carries the no-watermark requirement and not the watermark.
C6_WatermarkByPlan ==
    lastRequest # NoRequest =>
        IF lastRequest.tier = "free"
          THEN "watermark" \in lastRequest.prompt /\ "no-watermarks" \notin lastRequest.prompt
          ELSE "no-watermarks" \in lastRequest.prompt /\ "watermark" \notin lastRequest.prompt


\* run r takes up scene i in this step: a new run whose first item is i, or
\* a run that moves on to i as its current item
RunStarts(r, i) ==
    /\ runs'[r].pc # "idle"
    /\ Head(runs'[r].items).originalIndex = i
    /\ \/ runs[r].pc = "idle"
       \/ Head(runs[r].items).originalIndex # i

\* run r ends in this step
RunEnds(r) == runs[r].pc # "idle" /\ runs'[r].pc = "idle"

\* the scenes of the snapshot of run r that come after scene k
SnapAfter(r, k) == {i \in runs[r].snap : i > k}

\* the least element of a non-empty set of scene indices
Least(S) == CHOOSE i \in S : \A j \in S : i <= j

\* a run takes up only scenes of the snapshot it took when Process Queue was
\* clicked; a 'queued' scene that is in the snapshot of no run in progress
\* stays 'queued' until a click of Process Queue starts a run with it
StartedFromSnapshotOnly ==
    \A i \in SceneIdx :
        /\ \A r \in RunIdx : RunStarts(r, i) => i \in runs'[r].snap
        /\ ( /\ scenes[i].videoStatus = "queued"
             /\ scenes'[i].videoStatus # "queued"
             /\ \A r \in RunIdx : runs[r].pc # "idle" => i \notin runs[r].snap ) =>
              \E r \in RunIdx : runs[r].pc = "idle" /\ RunStarts(r, i)

\* C12 (as stated): a run handles exactly the scenes that were 'queued' when
\* Process Queue was clicked: it ends only after the last of them; and no
\* other scene is started by it, a scene queued meanwhile staying 'queued'
\* until Process Queue is clicked again.
C12_HandlesExactlyTheSnapshot ==
    [][/\ StartedFromSnapshotOnly
       /\ \A r \in RunIdx : RunEnds(r) =>
             SnapAfter(r, Head(runs[r].items).originalIndex) = {}]_vars

\* C12 (amended): a run takes up only scenes of its snapshot, one after the
\* other in ascending index and each after the pause that follows the previous
\* one, a scene queued meanwhile staying 'queued' until Process Queue is
\* clicked again; the run ends either after the pause that follows its last
\* snapshot scene, or at its first failure, which puts the failed scene in
\* 'error' and leaves the snapshot scenes after it unstarted.
C12_SnapshotWalkUntilFailure ==
    [][/\ StartedFromSnapshotOnly
       /\ \A r \in RunIdx : \A i \in SceneIdx :
             (RunStarts(r, i) /\ runs[r].pc # "idle") =>
                 /\ runs[r].pc = "gap"
                 /\ i = Least(SnapAfter(r, Head(runs[r].items).originalIndex))
       /\ \A r \in RunIdx : RunEnds(r) =>
             LET cur == Head(runs[r].items).originalIndex
             IN \/ runs[r].pc = "gap" /\ SnapAfter(r, cur) = {}
                \/ runs[r].pc # "gap" /\ scenes'[cur].videoStatus = "error"]_vars

\* a run has brought a scene of its snapshot to 'done' while a scene that is
\* not in its snapshot waits in the queue
C12_Witness ==
    \E r \in RunIdx : \E i, j \in SceneIdx :
        /\ runs[r].pc # "idle"
        /\ i \notin runs[r].snap
        /\ scenes[i].videoStatus = "queued"
        /\ j \in runs[r].snap
        /\ scenes[j].videoStatus = "done"

InitAppSpec ==
    /\ InitRetryVars
    /\ InitApp
    /\ scenes = [i \in SceneIdx |-> [videoStatus |-> "idle", imageUrl |-> FALSE]]
    /\ isProcessing = FALSE
    /\ instance = 1
    /\ runs = [r \in RunIdx |-> IdleRun]
    /\ lastRequest = NoRequest

NextApp ==
    \/ AuthInitial
    \/ SwitchAuthView
    \/ SignInWithEmail
    \/ SignInWithGoogle
    \/ \E u \in Users : ListenerProfileFetched(u)
    \/ ProfileClick
    \/ UpgradeClick
    \/ BackToMain
    \/ HandleSignOutClick
    \/ HandleSignOutReset
    \/ HandleAnalyzeClick
    \/ AnalyzeFetched
    \/ AnalyzeUsageUpdated
    \/ HandleGenerateScript
    \/ ScriptFetched
    \/ ScriptUsageUpdated
    \/ HandleInfluencerGenerated
    \/ HandleProductGenerated

SpecApp == InitAppSpec /\ [][NextApp]_vars


\* the tier limit as the plans state it: 5 for 'free', 100 for 'pro', none otherwise
AtTierLimit(profile, feature) ==
    \/ profile.tier = "free" /\ profile.usage[feature] >= FreeUsageLimit
    \/ profile.tier = "pro" /\ profile.usage[feature] >= ProUsageLimit

\* C3: when handleAnalyzeClick (resp. handleGenerateScript) runs with
\* usage.analyses (resp. usage.scripts) at or above the tier limit, it starts no
\* vendor call, updates no usage (neither the document nor the local profile),
\* sets the limit error, switches appView to 'pricing' and leaves the stored
\* result unchanged.
C3_GatedAtLimit ==
    [][/\ (HandleAnalyzeClick /\ AtTierLimit(userProfile, "analyses")) =>
            /\ anPc' = "idle"
            /\ analysesDone' = analysesDone
            /\ docs' = docs
            /\ userProfile' = userProfile
            /\ analysisError' = "limit"
            /\ appView' = "pricing"
            /\ analysisResult' = analysisResult
       /\ (HandleGenerateScript /\ AtTierLimit(userProfile, "scripts")) =>
            /\ scPc' = "idle"
            /\ scriptsDone' = scriptsDone
            /\ docs' = docs
            /\ userProfile' = userProfile
            /\ scriptError' = "limit"
            /\ appView' = "pricing"
            /\ scriptResult' = scriptResult
            /\ lastScriptInputs' = lastScriptInputs]_vars

\* both handlers have been refused at the limit while a result was stored
C3_Witness ==
    /\ AtTierLimit(userProfile, "analyses")
    /\ AtTierLimit(userProfile, "scripts")
    /\ analysisError = "limit"
    /\ scriptError = "limit"
    /\ appView = "pricing"
    /\ analysisResult = "u1"
    /\ scriptResult = "u1"

\* C4: a free-tier user never has more than 5 successful trend analyses nor
\* more than 5 successful script generations, whatever the outcome of the
\* usage updates.
C4_FreeTierNeverExceedsLimit ==
    docs["u1"].tier = "free" =>
        /\ analysesDone <= FreeUsageLimit
        /\ scriptsDone <= FreeUsageLimit

\* C9: the step that completes handleSignOut leaves every piece of wizard and
\* view state of App at its initial value.
C9_SignOutResetsAllState ==
    [][HandleSignOutReset =>
        /\ appView' = "main"
        /\ authView' = "login"
        /\ userProfile' = NoProfile
        /\ analysisResult' = "none"
        /\ analysisError' = "none"
        /\ generatedInfluencer' = "none"
        /\ generatedProduct' = "none"
        /\ scriptResult' = "none"
        /\ scriptError' = "none"
        /\ lastScriptInputs' = "none"
        /\ isAnalysisLoading' = FALSE
        /\ isScriptLoading' = FALSE]_vars

\* C10: once the listener has finished for the Google user who had no profile
\* document, the document exists and userProfile is non-null (the main app is
\* shown instead of the login page).
C10_GoogleUserGetsProfile ==
    (authUser = "g" /\ currentUser = "g" /\ fetches = {} /\ ~isAuthLoading) =>
        /\ docs["g"] # NoDoc
        /\ userProfile # NoProfile
        /\ ShowsApp

NextSignUp ==
    \/ AuthInitial
    \/ SwitchAuthView
    \/ SignUpWithEmail
    \/ SignUpDocRead
    \/ SignUpDocWritten
    \/ SignInWithEmail
    \/ SignInWithGoogle
    \/ \E u \in Users : ListenerProfileFetched(u)
    \/ ProfileClick
    \/ UpgradeClick
    \/ BackToMain
    \/ HandleSignOutClick
    \/ HandleSignOutReset
    \/ HandleInfluencerGenerated
    \/ HandleProductGenerated

SpecSignUp == InitAppSpec /\ [][NextSignUp]_vars

\* C11: once an email sign-up has succeeded (account created, profile
\* document written) and the listener has finished for the new user, App
\* holds a non-null userProfile and renders the main app, whatever the order
\* of the listener's read and the document's write.
C11_SignUpReachesMainApp ==
    (suPc = "done" /\ authUser = "n" /\ currentUser = "n" /\ "n" \notin fetches
        /\ ~isAuthLoading) =>
        /\ userProfile # NoProfile
        /\ ShowsApp

\* The trend analysis of a signed-in user and the images of its products
NextImages ==
    \/ AuthInitial
    \/ SignInWithEmail
    \/ \E u \in Users : ListenerProfileFetched(u)
    \/ BackToMain
    \/ HandleAnalyzeClick
    \/ AnalyzeFetched
    \/ AnalyzeUsageUpdated
    \/ \E c \in imageCalls : ImageReturned(c)
    \/ \E i \in ProductIdx : HandleRetryProductImage(i)

SpecImages == InitAppSpec /\ [][NextImages]_vars

\* C13: the imageUrl and the imageError stored on a product of
\* analysisResult come from a generation started for that product's own
\* imagePrompt.
C13_ImageFromOwnPrompt ==
    \A i \in DOMAIN products :
        /\ products[i].imageUrl \in {0, products[i].prompt}
        /\ products[i].imageError \in {0, products[i].prompt}

InitRetry == InitRetryVars /\ InitQueueVars /\ InitSignedIn

NextRetry ==
    \/ WrLoopTest /\ UNCHANGED <<sharedVars, queueVars, appOnlyVars>>
    \/ WrCallOk /\ UNCHANGED <<sharedVars, queueVars, appOnlyVars>>
    \/ WrCallFail /\ UNCHANGED <<sharedVars, queueVars, appOnlyVars>>
    \/ WrWaitDone /\ UNCHANGED <<sharedVars, queueVars, appOnlyVars>>
    \/ WrInvoke /\ UNCHANGED <<sharedVars, queueVars, appOnlyVars>>

SpecRetry == InitRetry /\ [][NextRetry]_vars

AllRetriable == \A i \in 1..Len(wrErrs) : IsRetriable(wrErrs[i])

\* C7: when every attempt fails with a retriable error, withRetries retries
\* the call maxRetries times (calls - 1 = maxRetries) before it throws.
C7_RetriesEqualMaxRetries ==
    (wrPc = "thrown" /\ wrCalls >= 1 /\ AllRetriable) => (wrCalls - 1 = wrMax)

\* C8: with the default maxRetries a call that keeps failing with retriable
\* errors waits 1.5 s, 3 s and 6 s before the error is thrown.
C8_ThreeBackoffWaits ==
    (wrPc = "thrown" /\ wrMax = DefaultMaxRetries /\ wrCalls >= 1 /\ AllRetriable)
        => (wrDelays = <<1500, 3000, 6000>>)

====
